---- MODULE Spec2Model ----
(***************************************************************************)
(* A model of src/src/Arbitrage.ts: the opportunity finder                  *)
(* (getBestCrossedMarket, Arbitrage.evaluateMarkets) and the execution      *)
(* pipeline (Arbitrage.takeCrossedMarkets).                                 *)
(*                                                                         *)
(* Amounts are BigNumbers in the source (arbitrary precision, no overflow). *)
(* TLC's integers are 32 bits wide, so amounts are counted here in finney   *)
(* (10^15 wei): ETHER is 1000, and every division of the source is the      *)
(* same integer division on the scaled amount.                              *)
(***************************************************************************)
EXTENDS Integers, Sequences, FiniteSets, TLC

VARIABLES
    evalState,          \* "idle" | "returned" | "threw": evaluateMarkets' outcome
    marketsByToken,     \* the argument of evaluateMarkets
    searchLog,          \* per token: every volume getBestCrossedMarket tested
    bestCrossedMarkets, \* the list evaluateMarkets returned
    takePc,             \* where takeCrossedMarkets stands
    takeList,           \* the argument bestCrossedMarkets of takeCrossedMarkets
    takeIdx,            \* 1-based position of the for..of loop
    blockNumber,        \* the argument blockNumber
    minerRewardPercentage, \* the argument minerRewardPercentage
    transaction,        \* the populated transaction of the current opportunity
    calls,              \* every external call made by takeCrossedMarkets, in order
    bundleResults,      \* how the two sendRawBundle promises settled
    takeResult          \* how takeCrossedMarkets ended, "none" while it runs

vars == <<evalState, marketsByToken, searchLog, bestCrossedMarkets, takePc,
          takeList, takeIdx, blockNumber, minerRewardPercentage, transaction,
          calls, bundleResults, takeResult>>

finderVars == <<evalState, marketsByToken, searchLog, bestCrossedMarkets>>
takeVars == <<takePc, takeList, takeIdx, blockNumber, minerRewardPercentage,
              transaction, calls, bundleResults, takeResult>>

----------------------------------------------------------------------------
(* Bounds of the model. *)

\* the longest venue list a token of marketsByToken has
MaxVenues == 2
\* the longest list handed to takeCrossedMarkets by a direct caller
MaxList == 2

----------------------------------------------------------------------------
(* Constants of the program. *)

ETHER == 1000
WETH_ADDRESS == "WETH"
undefined == [undefined |-> TRUE]

\* BigNumber.div truncates toward zero
BNDiv(a, b) == IF a >= 0 THEN a \div b ELSE -((-a) \div b)

TEST_VOLUMES ==
    << BNDiv(ETHER, 100), BNDiv(ETHER, 10), BNDiv(ETHER, 6), BNDiv(ETHER, 4),
       BNDiv(ETHER, 2), BNDiv(ETHER, 1), ETHER * 2, ETHER * 5, ETHER * 10 >>

----------------------------------------------------------------------------
(* The venue interface (EthMarket).  A venue is a record; its quotes are    *)
(* pure functions of the record.  kind "cp" is a constant-product pool of   *)
(* a WETH and b tokens; kind "lin" quotes a fixed rate: a tokens for one    *)
(* unit of WETH bought, one unit of WETH for b tokens sold.  A venue cannot *)
(* price a purchase of more than cap units of WETH: the quote fails.        *)

QuoteFailure == -1

Venue(k, wa, tb, c) == [kind |-> k, a |-> wa, b |-> tb, cap |-> c]

\* the venue of configuration cfg deployed at marketAddress addr
EthMarket(cfg, addr) ==
    [marketAddress |-> addr, kind |-> cfg.kind, a |-> cfg.a, b |-> cfg.b,
     cap |-> cfg.cap]

VA == Venue("cp", 5000, 50000, 100000)
VB == Venue("cp", 5000, 60000, 1000)
VC == Venue("lin", 11, 10, 100000)
VD == Venue("cp", 500, 5160, 100000)
VL == Venue("lin", 10, 10, 100000)

VenueConfigs == {VA, VB, VC, VD, VL}

getTokensOut(market, tokenIn, tokenOut, amountIn) ==
    IF amountIn = QuoteFailure THEN QuoteFailure
    ELSE IF tokenIn = WETH_ADDRESS
    THEN IF amountIn > market.cap THEN QuoteFailure
         ELSE IF market.kind = "cp"
              THEN (amountIn * market.b) \div (market.a + amountIn)
              ELSE amountIn * market.a
    ELSE IF market.kind = "cp"
         THEN (amountIn * market.a) \div (market.b + amountIn)
         ELSE amountIn \div market.b

getTokensIn(market, tokenIn, tokenOut, amountOut) ==
    IF market.kind = "cp"
    THEN IF amountOut >= market.a THEN QuoteFailure
         ELSE (market.b * amountOut) \div (market.a - amountOut) + 1
    ELSE amountOut * market.b

----------------------------------------------------------------------------
(* getBestCrossedMarket *)

CrossedMarketDetails(volume, profit, tokenAddress, sellToMarket, buyFromMarket) ==
    [profit |-> profit, volume |-> volume, tokenAddress |-> tokenAddress,
     buyFromMarket |-> buyFromMarket, sellToMarket |-> sellToMarket]

\* proceeds of buying with `size` on buyFromMarket and selling on sellToMarket
Proceeds(sellToMarket, buyFromMarket, tokenAddress, size) ==
    getTokensOut(sellToMarket, tokenAddress, WETH_ADDRESS,
                 getTokensOut(buyFromMarket, WETH_ADDRESS, tokenAddress, size))

\* a search that never sees a decline: every candidate becomes the best
LostValueNever(best, profit) == FALSE

\* the next size up lost value against the running best
LostValue(best, profit) == best # undefined /\ profit < best.profit

TrySize(size, best) == BNDiv(size + best.volume, 2)

\* a probe that also replaces the best on equal profit
ProbeReplacesOnTie(tryProfit, best) == tryProfit >= best.profit

ProbeReplaces(tryProfit, best) == tryProfit > best.profit

LogEntry(pairIdx, kind, volume, profit, best) ==
    [pair |-> pairIdx, kind |-> kind, volume |-> volume, profit |-> profit,
     best |-> best]

\* a probe that records the candidate size in place of the midpoint
ProbeRecordsSize(st, sellToMarket, buyFromMarket, tokenAddress, pairIdx, size, profit) ==
    LET trySize == TrySize(size, st.best)
        tryProceeds == Proceeds(sellToMarket, buyFromMarket, tokenAddress, trySize)
        tryProfit == tryProceeds - trySize
        lost == Append(st.log, LogEntry(pairIdx, "candidate", size, profit, st.best))
    IN  IF tryProceeds = QuoteFailure
        THEN [best |-> st.best, log |-> lost, threw |-> TRUE]
        ELSE LET best == IF ProbeReplaces(tryProfit, st.best)
                         THEN CrossedMarketDetails(size, tryProfit, tokenAddress,
                                                   sellToMarket, buyFromMarket)
                         ELSE st.best
             IN  [best |-> best,
                  log |-> Append(lost, LogEntry(pairIdx, "probe", trySize, tryProfit,
                                                best)),
                  threw |-> FALSE]

\* the midpoint probe of one crossed pair, then break
Probe(st, sellToMarket, buyFromMarket, tokenAddress, pairIdx, size, profit) ==
    LET trySize == TrySize(size, st.best)
        tryProceeds == Proceeds(sellToMarket, buyFromMarket, tokenAddress, trySize)
        tryProfit == tryProceeds - trySize
        lost == Append(st.log, LogEntry(pairIdx, "candidate", size, profit, st.best))
    IN  IF tryProceeds = QuoteFailure
        THEN [best |-> st.best, log |-> lost, threw |-> TRUE]
        ELSE LET best == IF ProbeReplaces(tryProfit, st.best)
                         THEN CrossedMarketDetails(trySize, tryProfit, tokenAddress,
                                                   sellToMarket, buyFromMarket)
                         ELSE st.best
             IN  [best |-> best,
                  log |-> Append(lost, LogEntry(pairIdx, "probe", trySize, tryProfit,
                                                best)),
                  threw |-> FALSE]

\* the loop over TEST_VOLUMES for one crossed pair, from candidate k on
RECURSIVE ScanVolumes(_, _, _, _, _, _)
ScanVolumes(st, sellToMarket, buyFromMarket, tokenAddress, pairIdx, k) ==
    IF k > Len(TEST_VOLUMES) THEN st
    ELSE LET size == TEST_VOLUMES[k]
             proceeds == Proceeds(sellToMarket, buyFromMarket, tokenAddress, size)
             profit == proceeds - size
         IN  IF proceeds = QuoteFailure
             THEN [st EXCEPT !.threw = TRUE]
             ELSE IF LostValue(st.best, profit)
             THEN Probe(st, sellToMarket, buyFromMarket, tokenAddress, pairIdx,
                        size, profit)
             ELSE LET best == CrossedMarketDetails(size, profit, tokenAddress,
                                                   sellToMarket, buyFromMarket)
                  IN  ScanVolumes([best |-> best,
                                   log |-> Append(st.log,
                                                  LogEntry(pairIdx, "candidate", size,
                                                           profit, best)),
                                   threw |-> FALSE],
                                  sellToMarket, buyFromMarket, tokenAddress,
                                  pairIdx, k + 1)

\* the loop over crossedMarkets, from pair p on
RECURSIVE ScanPairs(_, _, _, _)
ScanPairs(st, crossedMarkets, tokenAddress, p) ==
    IF p > Len(crossedMarkets) \/ st.threw THEN st
    ELSE ScanPairs(ScanVolumes(st, crossedMarkets[p][1], crossedMarkets[p][2],
                               tokenAddress, p, 1),
                   crossedMarkets, tokenAddress, p + 1)

\* [best: the value returned, log: the volumes tested, threw: a quote failed]
getBestCrossedMarket(crossedMarkets, tokenAddress) ==
    ScanPairs([best |-> undefined, log |-> <<>>, threw |-> FALSE],
              crossedMarkets, tokenAddress, 1)

----------------------------------------------------------------------------
(* Arbitrage.evaluateMarkets *)

\* prices from buying and selling ETHER / 100
PricedMarket(ethMarket, tokenAddress) ==
    [ethMarket |-> ethMarket,
     buyTokenPrice |-> getTokensIn(ethMarket, tokenAddress, WETH_ADDRESS,
                                   BNDiv(ETHER, 100)),
     sellTokenPrice |-> getTokensOut(ethMarket, WETH_ADDRESS, tokenAddress,
                                     BNDiv(ETHER, 100))]

PricedMarkets(markets, tokenAddress) ==
    [i \in 1..Len(markets) |-> PricedMarket(markets[i], tokenAddress)]

PricingThrew(pricedMarkets) ==
    \E i \in 1..Len(pricedMarkets) :
        \/ pricedMarkets[i].buyTokenPrice = QuoteFailure
        \/ pricedMarkets[i].sellTokenPrice = QuoteFailure

\* a crossing test that also fires when the two prices are equal
IsCrossedInclusive(pricedMarket, pm) == pm.sellTokenPrice >= pricedMarket.buyTokenPrice

\* selling price of pm is larger than buying price of pricedMarket
IsCrossed(pricedMarket, pm) == pm.sellTokenPrice > pricedMarket.buyTokenPrice

\* the nested loops: pricedMarket outer, pm inner, pushes in that order
CrossedMarkets(pricedMarkets) ==
    LET n == Len(pricedMarkets)
        all == [k \in 1..(n * n) |->
                   <<pricedMarkets[((k - 1) \div n) + 1],
                     pricedMarkets[((k - 1) % n) + 1]>>]
        crossed == SelectSeq(all, LAMBDA pr : IsCrossed(pr[1], pr[2]))
    IN  [k \in 1..Len(crossed) |-> <<crossed[k][1].ethMarket, crossed[k][2].ethMarket>>]

MinProfit == BNDiv(ETHER, 1000)

\* a filter that keeps every result the search hands back
ProfitableWhenDefined(bestCrossedMarket) == bestCrossedMarket # undefined

\* a filter that lets a profit equal to the threshold through
ProfitableInclusive(bestCrossedMarket) ==
    bestCrossedMarket # undefined /\ bestCrossedMarket.profit >= MinProfit

Profitable(bestCrossedMarket) ==
    bestCrossedMarket # undefined /\ bestCrossedMarket.profit > MinProfit

\* a comparator with its two answers swapped: ascending profit
CompareProfitAscending(x, y) ==
    IF x.profit < y.profit THEN -1 ELSE IF x.profit > y.profit THEN 1 ELSE 0

\* the comparator handed to Array.sort
CompareProfit(x, y) ==
    IF x.profit < y.profit THEN 1 ELSE IF x.profit > y.profit THEN -1 ELSE 0

\* Array.sort is stable: y goes behind every element that does not compare after it
RECURSIVE InsertSorted(_, _)
InsertSorted(sorted, y) ==
    IF sorted = <<>> THEN <<y>>
    ELSE IF CompareProfit(sorted[1], y) > 0
         THEN <<y>> \o sorted
         ELSE <<sorted[1]>> \o InsertSorted(Tail(sorted), y)

RECURSIVE SortList(_)
SortList(list) ==
    IF list = <<>> THEN <<>>
    ELSE InsertSorted(SortList(SubSeq(list, 1, Len(list) - 1)), list[Len(list)])

\* an iteration that reports every crossed pair of the token by itself
EvaluateTokenPerPair(acc, entry) ==
    LET tokenAddress == entry.tokenAddress
        crossedMarkets == CrossedMarkets(PricedMarkets(entry.markets, tokenAddress))
        found == getBestCrossedMarket(crossedMarkets, tokenAddress)
        each == [p \in 1..Len(crossedMarkets) |->
                    getBestCrossedMarket(<<crossedMarkets[p]>>, tokenAddress).best]
    IN  [list |-> acc.list \o SelectSeq(each, Profitable),
         log |-> Append(acc.log,
                        [tokenAddress |-> tokenAddress,
                         crossedMarkets |-> crossedMarkets,
                         tested |-> found.log,
                         best |-> found.best,
                         threw |-> found.threw]),
         threw |-> found.threw]

\* one iteration of the loop over the tokens of marketsByToken
EvaluateToken(acc, entry) ==
    LET tokenAddress == entry.tokenAddress
        pricedMarkets == PricedMarkets(entry.markets, tokenAddress)
    IN  IF PricingThrew(pricedMarkets)
        THEN [acc EXCEPT !.threw = TRUE]
        ELSE LET crossedMarkets == CrossedMarkets(pricedMarkets)
                 found == getBestCrossedMarket(crossedMarkets, tokenAddress)
             IN  [list |-> IF ~found.threw /\ Profitable(found.best)
                           THEN Append(acc.list, found.best)
                           ELSE acc.list,
                  log |-> Append(acc.log,
                                 [tokenAddress |-> tokenAddress,
                                  crossedMarkets |-> crossedMarkets,
                                  tested |-> found.log,
                                  best |-> found.best,
                                  threw |-> found.threw]),
                  threw |-> found.threw]

RECURSIVE EvaluateTokens(_, _, _)
EvaluateTokens(acc, byToken, t) ==
    IF t > Len(byToken) \/ acc.threw THEN acc
    ELSE EvaluateTokens(EvaluateToken(acc, byToken[t]), byToken, t + 1)

\* [list: the sorted list returned, log: the search of each token, threw]
evaluateMarkets(byToken) ==
    LET scanned == EvaluateTokens([list |-> <<>>, log |-> <<>>, threw |-> FALSE],
                                  byToken, 1)
    IN  [scanned EXCEPT !.list = SortList(scanned.list)]

----------------------------------------------------------------------------
(* The inputs of evaluateMarkets. *)

TokenAddresses == <<"tokenA", "tokenB">>

\* the venue lists of one token: 0..MaxVenues venues, addressed by position
MarketLists ==
    UNION {[1..n -> VenueConfigs] : n \in 0..MaxVenues}

Markets(cfgs) == [i \in 1..Len(cfgs) |-> EthMarket(cfgs[i], i)]

MarketsByTokenInputs ==
    {[t \in 1..Len(TokenAddresses) |->
         [tokenAddress |-> TokenAddresses[t], markets |-> Markets(f[t])]] :
     f \in [1..Len(TokenAddresses) -> MarketLists]}

----------------------------------------------------------------------------
(* Arbitrage.takeCrossedMarkets: its decisions *)

DraftGasLimit == 1000000
GasCeiling == 1400000

\* the transaction populated for an opportunity, before gas estimation
PopulateTransaction(bestCrossedMarket, pct) ==
    [volume |-> bestCrossedMarket.volume,
     minerReward |-> BNDiv(bestCrossedMarket.profit * pct, 100),
     gasPrice |-> 0,
     gasLimit |-> DraftGasLimit]

\* a ceiling test that is off by one
SuspiciousGasInclusive(estimateGas) == estimateGas >= GasCeiling

\* the estimate succeeded, but is suspiciously large
SuspiciousGas(estimateGas) == estimateGas > GasCeiling

\* the draft's gas limit left in place of the estimate's double
GasLimitKeepsDraft(estimateGas) == DraftGasLimit

GasLimitFor(estimateGas) == estimateGas * 2

\* a test of the simulation response that forgets firstRevert
SimulationFailedErrorOnly(simulation) == simulation.error

\* the simulation response reports an error or a revert
SimulationFailed(simulation) == simulation.error \/ simulation.firstRevert

SimulationBlock(bn) == bn + 1

\* targets that start at the current block
TargetBlocksFromCurrent(bn) == <<bn, bn + 1>>

TargetBlocks(bn) == <<bn + 1, bn + 2>>

\* Promise.all rejects as soon as one of the promises rejects
AllFulfilled(results) == \A i \in 1..Len(results) : results[i] = "fulfilled"

\* what a collaborator answered: it rejected, or resolved to a value
Answer(status, gas, error, firstRevert) ==
    [status |-> status, gas |-> gas, error |-> error, firstRevert |-> firstRevert]

Resolves == Answer("resolves", 0, FALSE, FALSE)
Rejects == Answer("rejects", 0, FALSE, FALSE)
Pending == Answer("pending", 0, FALSE, FALSE)

\* a call made for the opportunity at position opp of the list, of profit `profit`
Call(op, opp, profit, block, gasLimit, outcome) ==
    [op |-> op, opp |-> opp, profit |-> profit, block |-> block,
     gasLimit |-> gasLimit, outcome |-> outcome]

\* a loop that walks the list from its end
CurrentOpportunityReversed(list, idx) == list[Len(list) - idx + 1]

\* the opportunity the for..of loop holds at position idx
CurrentOpportunity(list, idx) == list[idx]

\* a catch block that never runs
EstimationFailedIgnored(answer) == FALSE

\* estimateGas threw: the catch block
EstimationFailed(answer) == answer.status = "rejects"

\* a loop that falls off its end and returns
AfterLoopReturns == "success"

\* the throw behind the loop: no opportunity made it to the relay
AfterLoop == "exhausted"

----------------------------------------------------------------------------
(* The inputs of takeCrossedMarkets, and the answers of its collaborators. *)

\* opportunities as the finder reports them
OppAB == evaluateMarkets(<<[tokenAddress |-> "tokenA",
                            markets |-> Markets(<<VA, VB>>)]>>).list[1]
OppAC == evaluateMarkets(<<[tokenAddress |-> "tokenB",
                            markets |-> Markets(<<VA, VC>>)]>>).list[1]
OppBA == evaluateMarkets(<<[tokenAddress |-> "tokenC",
                            markets |-> Markets(<<VB, VA>>)]>>).list[1]

Opportunities == {OppAB, OppAC, OppBA}

OpportunityLists == UNION {[1..n -> Opportunities] : n \in 0..MaxList}

BlockNumbers == {5, 6}
MinerRewardPercentages == {80}

\* what estimateGas answers: it rejects, or it resolves to a number of gas units
GasEstimates == {500000, 1400000, 1400001, 1500000}
EstimateAnswers ==
    {Rejects} \cup {Answer("resolves", g, FALSE, FALSE) : g \in GasEstimates}

\* what simulate answers: it rejects, or it resolves to a response
SimulationResponses ==
    {Answer("resolves", 0, FALSE, FALSE),
     Answer("resolves", 0, TRUE, FALSE),
     Answer("resolves", 0, FALSE, TRUE)}
SimulateAnswers == {Rejects} \cup SimulationResponses

Settlements == {"fulfilled", "rejected"}

----------------------------------------------------------------------------
(* Actions *)

Init ==
    /\ evalState = "idle"
    /\ marketsByToken = <<>>
    /\ searchLog = <<>>
    /\ bestCrossedMarkets = <<>>
    /\ takePc = "idle"
    /\ takeList = <<>>
    /\ takeIdx = 0
    /\ blockNumber = 0
    /\ minerRewardPercentage = 0
    /\ transaction = [volume |-> 0, minerReward |-> 0, gasPrice |-> 0,
                      gasLimit |-> 0]
    /\ calls = <<>>
    /\ bundleResults = <<>>
    /\ takeResult = "none"

EvaluateMarkets ==
    /\ evalState = "idle"
    /\ takePc = "idle"
    /\ \E byToken \in MarketsByTokenInputs :
          LET r == evaluateMarkets(byToken)
          IN  /\ marketsByToken' = byToken
              /\ searchLog' = r.log
              /\ bestCrossedMarkets' = IF r.threw THEN <<>> ELSE r.list
              /\ evalState' = IF r.threw THEN "threw" ELSE "returned"
    /\ UNCHANGED takeVars

\* a call of takeCrossedMarkets; the loop ends at once on an empty list
TakeCrossedMarkets ==
    /\ evalState = "idle"
    /\ takePc = "idle"
    /\ \E list \in OpportunityLists, bn \in BlockNumbers,
          pct \in MinerRewardPercentages :
          /\ takeList' = list
          /\ blockNumber' = bn
          /\ minerRewardPercentage' = pct
          /\ takeIdx' = 1
          /\ takePc' = IF list = <<>> THEN "done" ELSE "build"
          /\ takeResult' = IF list = <<>> THEN AfterLoop ELSE "none"
    /\ UNCHANGED <<transaction, calls, bundleResults>>
    /\ UNCHANGED finderVars

\* `continue`: the next opportunity, or the throw behind the loop
Continue ==
    /\ takeIdx' = takeIdx + 1
    /\ takePc' = IF takeIdx + 1 > Len(takeList) THEN "done" ELSE "build"
    /\ takeResult' = IF takeIdx + 1 > Len(takeList) THEN AfterLoop ELSE "none"

\* an awaited call rejected outside the try block: the call ends with that error
Reject(error) ==
    /\ takePc' = "done"
    /\ takeResult' = error
    /\ UNCHANGED takeIdx

\* the calldata of both legs and the populated transaction
Build ==
    /\ takePc = "build"
    /\ \E answer \in {Resolves, Rejects} :
          LET opp == CurrentOpportunity(takeList, takeIdx)
              inter == getTokensOut(opp.buyFromMarket, WETH_ADDRESS,
                                    opp.tokenAddress, opp.volume)
              ok == answer = Resolves /\ inter # QuoteFailure
          IN  /\ calls' = Append(calls, Call("build", takeIdx, opp.profit, 0,
                                             DraftGasLimit,
                                             IF ok THEN Resolves ELSE Rejects))
              /\ IF ok
                 THEN /\ transaction' = PopulateTransaction(opp, minerRewardPercentage)
                      /\ takePc' = "estimate"
                      /\ UNCHANGED <<takeIdx, takeResult>>
                 ELSE /\ Reject("buildError")
                      /\ UNCHANGED transaction
    /\ UNCHANGED <<takeList, blockNumber, minerRewardPercentage, bundleResults>>
    /\ UNCHANGED finderVars

\* the try block around estimateGas
EstimateGas ==
    /\ takePc = "estimate"
    /\ \E answer \in EstimateAnswers :
          /\ calls' = Append(calls, Call("estimateGas", takeIdx,
                                         CurrentOpportunity(takeList, takeIdx).profit, 0,
                                         transaction.gasLimit, answer))
          /\ IF EstimationFailed(answer)
             THEN Continue /\ UNCHANGED transaction
             ELSE IF SuspiciousGas(answer.gas)
             THEN Continue /\ UNCHANGED transaction
             ELSE /\ transaction' = [transaction EXCEPT
                                         !.gasLimit = GasLimitFor(answer.gas)]
                  /\ takePc' = "sign"
                  /\ UNCHANGED <<takeIdx, takeResult>>
    /\ UNCHANGED <<takeList, blockNumber, minerRewardPercentage, bundleResults>>
    /\ UNCHANGED finderVars

SignBundle ==
    /\ takePc = "sign"
    /\ \E answer \in {Resolves, Rejects} :
          /\ calls' = Append(calls, Call("signBundle", takeIdx,
                                         CurrentOpportunity(takeList, takeIdx).profit, 0,
                                         transaction.gasLimit, answer))
          /\ IF answer = Resolves
             THEN takePc' = "simulate" /\ UNCHANGED <<takeIdx, takeResult>>
             ELSE Reject("signError")
    /\ UNCHANGED <<takeList, blockNumber, minerRewardPercentage, transaction,
                   bundleResults>>
    /\ UNCHANGED finderVars

Simulate ==
    /\ takePc = "simulate"
    /\ \E answer \in SimulateAnswers :
          /\ calls' = Append(calls, Call("simulate", takeIdx,
                                         CurrentOpportunity(takeList, takeIdx).profit,
                                         SimulationBlock(blockNumber),
                                         transaction.gasLimit, answer))
          /\ IF answer = Rejects
             THEN Reject("simulateError")
             ELSE IF SimulationFailed(answer)
             THEN Continue
             ELSE takePc' = "send" /\ UNCHANGED <<takeIdx, takeResult>>
    /\ UNCHANGED <<takeList, blockNumber, minerRewardPercentage, transaction,
                   bundleResults>>
    /\ UNCHANGED finderVars

\* _.map over the target blocks: both sendRawBundle calls are made
SendRawBundles ==
    /\ takePc = "send"
    /\ LET targets == TargetBlocks(blockNumber)
       IN  calls' = calls \o [i \in 1..Len(targets) |->
                                 Call("sendRawBundle", takeIdx,
                                      CurrentOpportunity(takeList, takeIdx).profit, targets[i],
                                      transaction.gasLimit, Pending)]
    /\ takePc' = "await"
    /\ UNCHANGED <<takeList, takeIdx, blockNumber, minerRewardPercentage,
                   transaction, bundleResults, takeResult>>
    /\ UNCHANGED finderVars

\* await Promise.all(bundlePromises), then return
AwaitBundles ==
    /\ takePc = "await"
    /\ \E results \in [1..Len(TargetBlocks(blockNumber)) -> Settlements] :
          /\ bundleResults' = results
          /\ takeResult' = IF AllFulfilled(results) THEN "success" ELSE "sendError"
    /\ takePc' = "done"
    /\ UNCHANGED <<takeList, takeIdx, blockNumber, minerRewardPercentage,
                   transaction, calls>>
    /\ UNCHANGED finderVars

Next ==
    \/ EvaluateMarkets
    \/ TakeCrossedMarkets
    \/ Build
    \/ EstimateGas
    \/ SignBundle
    \/ Simulate
    \/ SendRawBundles
    \/ AwaitBundles

Spec == Init /\ [][Next]_vars

----------------------------------------------------------------------------
(* Properties of takeCrossedMarkets, read off the record of its calls. *)

\* a call of one of `ops` was made for the opportunity at position i
CallsOf(i, ops) ==
    \E k \in 1..Len(calls) : calls[k].opp = i /\ calls[k].op \in ops

\* call k was the last one for its opportunity and the loop went on behind it:
\* the next opportunity is built next, or, behind the last one, the loop ended
Advanced(k) ==
    IF k < Len(calls)
    THEN calls[k + 1].op = "build" /\ calls[k + 1].opp = calls[k].opp + 1
    ELSE IF calls[k].opp < Len(takeList)
         THEN takePc = "build" /\ takeIdx = calls[k].opp + 1 /\ takeResult = "none"
         ELSE takePc = "done" /\ takeResult = "exhausted"

SendCalls == {k \in 1..Len(calls) : calls[k].op = "sendRawBundle"}

EstimateRejected(k) ==
    calls[k].op = "estimateGas" /\ calls[k].outcome.status = "rejects"

EstimateAbove(k, gas) ==
    /\ calls[k].op = "estimateGas"
    /\ calls[k].outcome.status = "resolves"
    /\ calls[k].outcome.gas > gas

SimulationReported(k) ==
    /\ calls[k].op = "simulate"
    /\ calls[k].outcome.status = "resolves"
    /\ (calls[k].outcome.error \/ calls[k].outcome.firstRevert)

\* C1: an opportunity whose gas estimation fails is not signed, simulated or
\* sent, and the next opportunity is attempted; once the bundle of one
\* opportunity has been sent nothing is called for a later opportunity, and
\* with both sends accepted the call returns success.
C1_EstimateFailureSkipsSubmissionEnds ==
    /\ \A k \in 1..Len(calls) :
          EstimateRejected(k) =>
             /\ ~CallsOf(calls[k].opp, {"signBundle", "simulate", "sendRawBundle"})
             /\ Advanced(k)
    /\ \A k \in SendCalls :
          \A j \in 1..Len(calls) :
             /\ calls[j].opp <= calls[k].opp
             /\ (j > k => calls[j].op = "sendRawBundle")
    /\ (bundleResults # <<>> /\ AllFulfilled(bundleResults)) =>
          (takePc = "done" /\ takeResult = "success")

\* the first of two opportunities failed gas estimation, the second was sent
C1_Witness ==
    /\ Len(takeList) = 2
    /\ \E k \in 1..Len(calls) : EstimateRejected(k) /\ calls[k].opp = 1
    /\ \E k \in SendCalls : calls[k].opp = 2
    /\ takeResult = "success"

SortedByProfit(list) ==
    \A i \in 1..(Len(list) - 1) : list[i].profit >= list[i + 1].profit

\* C2 as claimed: for every list, whenever a call is made for an opportunity
\* after a call for another one, the earlier one's profit is at least the later's.
C2_DescendingForEveryList ==
    \A j, k \in 1..Len(calls) :
        (j < k /\ calls[j].opp # calls[k].opp) => calls[j].profit >= calls[k].profit

\* C2 as amended: opportunities are attempted in the order of the list, each
\* call being made for the entry at its position; so, when the list is sorted by
\* profit non-increasing, as a list returned by evaluateMarkets is, the profit
\* of an opportunity attempted earlier is at least that of one attempted later.
C2_ListOrder ==
    /\ \A k \in 1..Len(calls) :
          /\ calls[k].opp \in 1..Len(takeList)
          /\ calls[k].profit = takeList[calls[k].opp].profit
    /\ \A j, k \in 1..Len(calls) : j < k => calls[j].opp <= calls[k].opp
    /\ SortedByProfit(takeList) =>
          \A j, k \in 1..Len(calls) : j < k => calls[j].profit >= calls[k].profit

\* a sorted list of two different profits, both attempted
C2_Witness ==
    /\ Len(takeList) = 2
    /\ takeList[1].profit > takeList[2].profit
    /\ CallsOf(1, {"build"})
    /\ CallsOf(2, {"build"})

\* the opportunity at position i was abandoned by a `continue`
Abandoned(i) ==
    \E k \in 1..Len(calls) :
        /\ calls[k].opp = i
        /\ EstimateRejected(k) \/ EstimateAbove(k, 1400000) \/ SimulationReported(k)

\* C3: the call fails with the exhaustion error exactly when every opportunity
\* of the list was abandoned (the empty list included); never after a bundle
\* was sent; and it never returns success without a bundle having been sent.
C3_ExhaustionExactlyWhenAllAbandoned ==
    /\ (takeResult = "exhausted") <=>
          (takePc = "done" /\ \A i \in 1..Len(takeList) : Abandoned(i))
    /\ takeResult = "exhausted" => SendCalls = {}
    /\ takeResult = "success" => SendCalls # {}

\* both opportunities of a list of two were abandoned
C3_Witness ==
    /\ Len(takeList) = 2
    /\ takeResult = "exhausted"
    /\ Abandoned(1)
    /\ Abandoned(2)

\* C4: an estimate above 1,400,000 skips the opportunity: no sign, simulate or
\* send for it, and the loop advances; an estimate of at most 1,400,000, so one
\* of exactly 1,400,000, is not skipped: the bundle is signed next.
C4_GasCeiling ==
    \A k \in 1..Len(calls) :
        /\ EstimateAbove(k, 1400000) =>
              /\ ~CallsOf(calls[k].opp, {"signBundle", "simulate", "sendRawBundle"})
              /\ Advanced(k)
        /\ (calls[k].op = "estimateGas" /\ calls[k].outcome.status = "resolves"
              /\ calls[k].outcome.gas <= 1400000) =>
              IF k < Len(calls)
              THEN calls[k + 1].op = "signBundle" /\ calls[k + 1].opp = calls[k].opp
              ELSE takePc = "sign" /\ takeIdx = calls[k].opp

\* an estimate of 1,500,000 skipped the first opportunity, and the bundle of the
\* second, estimated at exactly 1,400,000, was signed
C4_Witness ==
    /\ \E k \in 1..Len(calls) :
          /\ EstimateAbove(k, 1400000)
          /\ calls[k].outcome.gas = 1500000
          /\ calls[k].opp = 1
    /\ \E k \in 1..Len(calls) :
          /\ calls[k].op = "estimateGas"
          /\ calls[k].outcome.gas = 1400000
          /\ calls[k].opp = 2
    /\ CallsOf(2, {"signBundle"})

\* C5: sendRawBundle is only called for an opportunity whose bundle was signed
\* and whose simulation then answered without error and without revert; a
\* simulation that reports either abandons the opportunity, with no send, and
\* the loop advances.
C5_SendOnlyAfterCleanSimulation ==
    /\ \A k \in SendCalls :
          \E i, j \in 1..Len(calls) :
             /\ i < j /\ j < k
             /\ calls[i].opp = calls[k].opp
             /\ calls[i].op = "signBundle"
             /\ calls[i].outcome.status = "resolves"
             /\ calls[j].opp = calls[k].opp
             /\ calls[j].op = "simulate"
             /\ calls[j].outcome.status = "resolves"
             /\ ~calls[j].outcome.error
             /\ ~calls[j].outcome.firstRevert
    /\ \A k \in 1..Len(calls) :
          SimulationReported(k) =>
             /\ ~CallsOf(calls[k].opp, {"sendRawBundle"})
             /\ Advanced(k)

\* the simulation of the first opportunity reported a revert, the second was sent
C5_Witness ==
    /\ \E k \in 1..Len(calls) :
          SimulationReported(k) /\ calls[k].outcome.firstRevert /\ calls[k].opp = 1
    /\ \E k \in SendCalls : calls[k].opp = 2

\* C6 as claimed: when a bundle was sent and the sends have settled, whichever
\* way, both sendRawBundle calls were made and the call ended in success.
C6_SendFailureStillSucceeds ==
    (takePc = "done" /\ bundleResults # <<>>) =>
        (Cardinality(SendCalls) = 2 /\ takeResult = "success")

----------------------------------------------------------------------------
(* Properties of the finder, read off the returned list and the search log. *)

Returned == evalState = "returned"

\* the profit of an opportunity, computed again from its own volume and venues
ProfitOf(o) ==
    Proceeds(o.sellToMarket, o.buyFromMarket, o.tokenAddress, o.volume) - o.volume

\* C7: every opportunity evaluateMarkets returns has a profit strictly above
\* ETHER / 1000; a best opportunity of a token whose profit equals the
\* threshold, or is below it, is not in the returned list.
C7_AboveThreshold ==
    Returned =>
       /\ \A i \in 1..Len(bestCrossedMarkets) :
             bestCrossedMarkets[i].profit > ETHER \div 1000
       /\ \A t \in 1..Len(searchLog) :
             (searchLog[t].best # undefined
                /\ searchLog[t].best.profit <= ETHER \div 1000) =>
             \A i \in 1..Len(bestCrossedMarkets) :
                bestCrossedMarkets[i] # searchLog[t].best

\* one token's best opportunity earns exactly the threshold and is left out,
\* the other token's is returned
C7_Witness ==
    /\ Returned
    /\ Len(bestCrossedMarkets) = 1
    /\ \E t \in 1..Len(searchLog) :
          /\ searchLog[t].best # undefined
          /\ searchLog[t].best.profit = ETHER \div 1000

\* C8: the list evaluateMarkets returns is sorted by profit non-increasing.
C8_SortedNonIncreasing ==
    Returned =>
       \A i \in 1..(Len(bestCrossedMarkets) - 1) :
          bestCrossedMarkets[i].profit >= bestCrossedMarkets[i + 1].profit

\* two opportunities are returned and the sort moved the second token's to the front
C8_Witness ==
    /\ Returned
    /\ Len(bestCrossedMarkets) = 2
    /\ bestCrossedMarkets[1].tokenAddress = TokenAddresses[2]
    /\ bestCrossedMarkets[1].profit > bestCrossedMarkets[2].profit

\* C9: while getBestCrossedMarket searches, the running best profit never
\* decreases and is, after each test, at least the profit just tested; so the
\* best opportunity it ends with has a profit at least that of every volume
\* tested, candidates and midpoint probes alike.
C9_BestDominatesTested ==
    \A t \in 1..Len(searchLog) :
       LET tested == searchLog[t].tested
       IN  \A k \in 1..Len(tested) :
              /\ tested[k].best # undefined
              /\ tested[k].best.profit >= tested[k].profit
              /\ k > 1 => tested[k].best.profit >= tested[k - 1].best.profit
              /\ searchLog[t].best # undefined
              /\ searchLog[t].best.profit >= tested[k].profit

\* a search over two crossed pairs or more in which a midpoint probe earned
\* less than the best, and a candidate earned less than the best
C9_Witness ==
    /\ Returned
    /\ \E t \in 1..Len(searchLog) :
          LET tested == searchLog[t].tested
          IN  /\ Len(searchLog[t].crossedMarkets) >= 2
              /\ \E k \in 1..Len(tested) :
                    /\ tested[k].kind = "probe"
                    /\ tested[k].profit < searchLog[t].best.profit
              /\ \E k \in 1..Len(tested) :
                    /\ tested[k].kind = "candidate"
                    /\ tested[k].profit < searchLog[t].best.profit

\* C10: every opportunity the finder records or returns has
\* profit = proceeds - volume, the proceeds being quoted for its own volume on
\* its own buy-from and sell-to venues; at a candidate volume and at a probe.
C10_ProfitIsProceedsMinusVolume ==
    /\ \A i \in 1..Len(bestCrossedMarkets) :
          bestCrossedMarkets[i].profit = ProfitOf(bestCrossedMarkets[i])
    /\ \A t \in 1..Len(searchLog) :
          /\ searchLog[t].best # undefined =>
                searchLog[t].best.profit = ProfitOf(searchLog[t].best)
          /\ \A k \in 1..Len(searchLog[t].tested) :
                searchLog[t].tested[k].best.profit =
                   ProfitOf(searchLog[t].tested[k].best)

IsTestVolume(v) == \E k \in 1..Len(TEST_VOLUMES) : TEST_VOLUMES[k] = v

\* the returned list holds an opportunity recorded at a midpoint probe and one
\* recorded at a candidate volume
C10_Witness ==
    /\ Returned
    /\ \E i \in 1..Len(bestCrossedMarkets) : ~IsTestVolume(bestCrossedMarkets[i].volume)
    /\ \E i \in 1..Len(bestCrossedMarkets) : IsTestVolume(bestCrossedMarkets[i].volume)

----------------------------------------------------------------------------
(* Properties of the finder: quote failures and crossing detection. *)

\* C11 as claimed: a quote that fails during the search costs only its
\* candidate: the call of evaluateMarkets still returns, and every token of
\* marketsByToken has been scanned.
C11_QuoteFailureKeepsScanning ==
    evalState # "idle" =>
       /\ evalState = "returned"
       /\ Len(searchLog) = Len(marketsByToken)

\* C12 as claimed: no recorded crossed pair and no returned opportunity has
\* one venue as both its buy-from and its sell-to venue.
C12_NoSelfCrossing ==
    /\ \A t \in 1..Len(searchLog) :
          \A p \in 1..Len(searchLog[t].crossedMarkets) :
             searchLog[t].crossedMarkets[p][1].marketAddress #
                searchLog[t].crossedMarkets[p][2].marketAddress
    /\ \A i \in 1..Len(bestCrossedMarkets) :
          bestCrossedMarkets[i].buyFromMarket.marketAddress #
             bestCrossedMarkets[i].sellToMarket.marketAddress

\* the reference prices of the venues of the t-th token, as line 119-125 take them
PricesOf(t) ==
    PricedMarkets(marketsByToken[t].markets, marketsByToken[t].tokenAddress)

\* the t-th token has two venues that quote the same buy price and the same
\* sell price at the reference volume
IdenticalPrices(t) ==
    /\ Len(marketsByToken[t].markets) = 2
    /\ PricesOf(t)[1].buyTokenPrice = PricesOf(t)[2].buyTokenPrice
    /\ PricesOf(t)[1].sellTokenPrice = PricesOf(t)[2].sellTokenPrice

NoCrossingFor(t) ==
    /\ searchLog[t].crossedMarkets = <<>>
    /\ Returned =>
          \A i \in 1..Len(bestCrossedMarkets) :
             bestCrossedMarkets[i].tokenAddress # searchLog[t].tokenAddress

\* C13 as claimed: a token whose two venues quote identical prices in both
\* directions gets no crossed pair and no opportunity.
C13_IdenticalPricesNeverCross ==
    \A t \in 1..Len(searchLog) : IdenticalPrices(t) => NoCrossingFor(t)

\* C13, amended: a token whose two venues quote identical prices in both
\* directions, the common sell price not above the common buy price, gets no
\* crossed pair and no opportunity.
C13_IdenticalUncrossedPrices ==
    \A t \in 1..Len(searchLog) :
       (IdenticalPrices(t)
           /\ PricesOf(t)[1].sellTokenPrice <= PricesOf(t)[1].buyTokenPrice)
          => NoCrossingFor(t)

\* two venues with one equal price for buying and selling, and two venues with
\* a spread, both scanned in one returned call
C13_Witness ==
    /\ Returned
    /\ Len(searchLog) = 2
    /\ IdenticalPrices(1) /\ IdenticalPrices(2)
    /\ PricesOf(1)[1].sellTokenPrice = PricesOf(1)[1].buyTokenPrice
    /\ PricesOf(2)[1].sellTokenPrice < PricesOf(2)[1].buyTokenPrice
    /\ NoCrossingFor(1) /\ NoCrossingFor(2)

----------------------------------------------------------------------------
(* Properties of the volume search. *)

\* the search of the t-th token ran to its end
Searched(t) == ~searchLog[t].threw

\* every volume tested for the t-th token, candidate or probe, earned nothing
NoTestedProfit(t) ==
    \A k \in 1..Len(searchLog[t].tested) : searchLog[t].tested[k].profit <= 0

NotReported(t) ==
    Returned =>
       \A i \in 1..Len(bestCrossedMarkets) :
          bestCrossedMarkets[i].tokenAddress # searchLog[t].tokenAddress

\* C14 as claimed: when the profit at every tested volume of every crossed
\* pair is at most 0, getBestCrossedMarket returns undefined.
C14_UndefinedWithoutProfit ==
    \A t \in 1..Len(searchLog) :
       (Searched(t) /\ NoTestedProfit(t)) => searchLog[t].best = undefined

\* C14, amended: when the profit at every tested volume of every crossed pair
\* is at most 0, getBestCrossedMarket returns undefined only if there is no
\* crossed pair; otherwise it returns an opportunity whose profit is at most
\* 0, and evaluateMarkets returns no opportunity for that token.
C14_UnprofitableBestIsDropped ==
    \A t \in 1..Len(searchLog) :
       (Searched(t) /\ NoTestedProfit(t)) =>
          /\ (searchLog[t].best = undefined) <=> (searchLog[t].crossedMarkets = <<>>)
          /\ searchLog[t].best # undefined => searchLog[t].best.profit <= 0
          /\ NotReported(t)

\* a returned call with a token that has a crossed pair, no tested profit
\* above 0 and a defined best
C14_Witness ==
    /\ Returned
    /\ \E t \in 1..Len(searchLog) :
          /\ searchLog[t].crossedMarkets # <<>>
          /\ Len(searchLog[t].tested) >= 2
          /\ NoTestedProfit(t)
          /\ searchLog[t].best # undefined
          /\ NotReported(t)

\* the search of the p-th crossed pair of the t-th token on its own
SearchedAlone(t, p) ==
    getBestCrossedMarket(<<searchLog[t].crossedMarkets[p]>>, searchLog[t].tokenAddress)

\* the first volume tested for the p-th pair of the t-th token is recorded
FirstCandidateRecorded(t, p) ==
    \A k \in 1..Len(searchLog[t].tested) :
       (/\ searchLog[t].tested[k].pair = p
        /\ \A j \in 1..(k - 1) : searchLog[t].tested[j].pair # p)
          => /\ searchLog[t].tested[k].kind = "candidate"
             /\ searchLog[t].tested[k].best.volume = searchLog[t].tested[k].volume
             /\ searchLog[t].tested[k].best.profit = searchLog[t].tested[k].profit

\* C15 as claimed: the search is run for each crossed pair independently: the
\* first candidate of every pair is recorded as the running best, and the
\* opportunity returned for a token earns what the most profitable of the
\* pairs earns when it is searched on its own.
C15_PairsSearchedIndependently ==
    \A t \in 1..Len(searchLog) :
       LET pairs == 1..Len(searchLog[t].crossedMarkets)
       IN  (Searched(t) /\ pairs # {} /\ \A p \in pairs : ~SearchedAlone(t, p).threw)
              => /\ \A p \in pairs : FirstCandidateRecorded(t, p)
                 /\ \A p \in pairs :
                       searchLog[t].best.profit >= SearchedAlone(t, p).best.profit

\* the running best before the k-th volume of the t-th token was tested
BestBefore(t, k) ==
    IF k = 1 THEN undefined ELSE searchLog[t].tested[k - 1].best

\* the k-th volume tested for the t-th token is a candidate that earned less
\* than the running best
Declined(t, k) ==
    /\ searchLog[t].tested[k].kind = "candidate"
    /\ BestBefore(t, k) # undefined
    /\ searchLog[t].tested[k].profit < BestBefore(t, k).profit

\* the entry after a declined candidate k is the one probe of its pair
ProbedOnce(t, k) ==
    LET tested == searchLog[t].tested
        s == tested[k].volume
        before == BestBefore(t, k)
        probe == tested[k + 1]
    IN  /\ probe.kind = "probe"
        /\ probe.pair = tested[k].pair
        /\ probe.volume = (s + before.volume) \div 2
        /\ IF probe.profit > before.profit
           THEN /\ probe.best.volume = probe.volume
                /\ probe.best.profit = probe.profit
           ELSE probe.best = before
        /\ \A j \in (k + 2)..Len(tested) : tested[j].pair # tested[k].pair

\* C17: a candidate size s that earns less than the running best leaves the
\* best as it is and is followed by exactly one probe, at the floor of
\* (s + best volume) / 2; the probe replaces the best only with a strictly
\* greater profit; nothing more is tested for that pair; and there is no probe
\* but after such a candidate.
C17_SingleMidpointProbe ==
    \A t \in 1..Len(searchLog) :
       \A k \in 1..Len(searchLog[t].tested) :
          /\ Declined(t, k) =>
                /\ searchLog[t].tested[k].best = BestBefore(t, k)
                /\ IF k = Len(searchLog[t].tested)
                   THEN searchLog[t].threw
                   ELSE ProbedOnce(t, k)
          /\ searchLog[t].tested[k].kind = "probe" => (k > 1 /\ Declined(t, k - 1))

\* a returned call with a probe that earned more than the best and replaced
\* it, one that earned less, and one that earned the same and did not
C17_Witness ==
    /\ Returned
    /\ \E t \in 1..Len(searchLog) :
          \E k \in 1..(Len(searchLog[t].tested) - 1) :
             /\ Declined(t, k)
             /\ searchLog[t].tested[k + 1].profit > BestBefore(t, k).profit
             /\ searchLog[t].tested[k + 1].best.volume = searchLog[t].tested[k + 1].volume
    /\ \E t \in 1..Len(searchLog) :
          \E k \in 1..(Len(searchLog[t].tested) - 1) :
             /\ Declined(t, k)
             /\ searchLog[t].tested[k + 1].profit < BestBefore(t, k).profit
             /\ searchLog[t].tested[k + 1].best = BestBefore(t, k)
    /\ \E t \in 1..Len(searchLog) :
          \E k \in 1..(Len(searchLog[t].tested) - 1) :
             /\ Declined(t, k)
             /\ searchLog[t].tested[k + 1].profit = BestBefore(t, k).profit
             /\ searchLog[t].tested[k + 1].best = BestBefore(t, k)

----------------------------------------------------------------------------
(* Properties of the list evaluateMarkets returns. *)

\* C20: the returned list holds at most one opportunity per token: no two of
\* its entries share a tokenAddress, each entry is the best found for a token
\* of marketsByToken, and the list is no longer than marketsByToken.
C20_OneOpportunityPerToken ==
    Returned =>
       /\ \A i, j \in 1..Len(bestCrossedMarkets) :
             i # j => bestCrossedMarkets[i].tokenAddress # bestCrossedMarkets[j].tokenAddress
       /\ \A i \in 1..Len(bestCrossedMarkets) :
             \E t \in 1..Len(searchLog) :
                /\ searchLog[t].tokenAddress = marketsByToken[t].tokenAddress
                /\ bestCrossedMarkets[i] = searchLog[t].best
       /\ Len(bestCrossedMarkets) <= Len(marketsByToken)

\* one opportunity for each of two tokens, each of them found among several
\* crossed pairs
C20_Witness ==
    /\ Returned
    /\ Len(bestCrossedMarkets) = 2
    /\ Len(marketsByToken) = 2
    /\ \A t \in 1..Len(searchLog) : Len(searchLog[t].crossedMarkets) >= 2

----------------------------------------------------------------------------
(* Properties of takeCrossedMarkets: outcomes, gas limit, target blocks. *)

\* the call is between its start and its end
Running == takePc \notin {"idle", "done"}

\* C16 as claimed: a call of takeCrossedMarkets that has not ended can always
\* take its next step once the awaited collaborator answers, and it ends in
\* one of two outcomes only: success after the bundle was sent, or the
\* exhaustion error.  No failure met on the way ends it with another error.
C16_SuccessOrExhaustion ==
    /\ Running =>
          ENABLED (Build \/ EstimateGas \/ SignBundle \/ Simulate
                      \/ SendRawBundles \/ AwaitBundles)
    /\ takePc = "done" =>
          \/ takeResult = "success" /\ SendCalls # {}
          \/ takeResult = AfterLoop

\* the calls that take the signed bundle or make it
BundleCalls ==
    {k \in 1..Len(calls) : calls[k].op \in {"signBundle", "simulate", "sendRawBundle"}}

\* the gas limit of call k is the double of the estimate that an earlier
\* estimateGas call for the same opportunity resolved to
TwiceItsEstimate(k) ==
    \E j \in 1..(k - 1) :
       /\ calls[j].op = "estimateGas"
       /\ calls[j].opp = calls[k].opp
       /\ calls[j].outcome.status = "resolves"
       /\ calls[k].gasLimit = 2 * calls[j].outcome.gas

\* C18: every transaction that is signed, simulated or sent carries a gas
\* limit that was set to twice the estimate of its own opportunity, hence at
\* most twice the ceiling (2,800,000); the gas limit of the populated draft is
\* what no such call carries over, and a transaction waiting to be signed,
\* simulated or sent has had its limit set the same way.
C18_GasLimitTwiceEstimate ==
    /\ \A k \in BundleCalls :
          /\ TwiceItsEstimate(k)
          /\ calls[k].gasLimit <= 2 * GasCeiling
    /\ takePc \in {"sign", "simulate", "send"} =>
          /\ calls[Len(calls)].opp = takeIdx
          /\ \E j \in 1..Len(calls) :
                /\ calls[j].op = "estimateGas" /\ calls[j].opp = takeIdx
                /\ calls[j].outcome.status = "resolves"
                /\ transaction.gasLimit = 2 * calls[j].outcome.gas

\* a bundle sent with the largest limit there is, 2,800,000, after the bundle
\* of an earlier opportunity, estimated at 500,000, was signed and simulated
C18_Witness ==
    /\ \E k \in SendCalls : calls[k].gasLimit = 2 * GasCeiling /\ calls[k].opp = 2
    /\ \E k \in BundleCalls :
          /\ calls[k].op = "simulate"
          /\ calls[k].opp = 1
          /\ calls[k].gasLimit = 2 * 500000

\* C19: when a bundle is sent, the record of the call ends with the signing
\* of one opportunity's bundle, its simulation against blockNumber + 1 with a
\* clean answer, and exactly two sends of that same bundle, the first for
\* blockNumber + 1 and the second for blockNumber + 2; there is no other send,
\* and every simulation of the call is against blockNumber + 1.
C19_SimulatedThenSentTwice ==
    /\ \A k \in 1..Len(calls) :
          calls[k].op = "simulate" => calls[k].block = blockNumber + 1
    /\ SendCalls # {} =>
          LET n == Len(calls)
          IN  /\ n >= 4
              /\ SendCalls = {n - 1, n}
              /\ calls[n - 1].block = blockNumber + 1
              /\ calls[n].block = blockNumber + 2
              /\ calls[n - 2].op = "simulate"
              /\ calls[n - 2].outcome.status = "resolves"
              /\ ~SimulationFailed(calls[n - 2].outcome)
              /\ calls[n - 3].op = "signBundle"
              /\ \A k \in (n - 3)..n :
                    /\ calls[k].opp = calls[n].opp
                    /\ calls[k].gasLimit = calls[n].gasLimit

\* the second opportunity of a call for block 6 was simulated against block 7
\* and sent for blocks 7 and 8, and the call returned
C19_Witness ==
    /\ blockNumber = 6
    /\ takePc = "done" /\ takeResult = "success"
    /\ SendCalls # {}
    /\ \A k \in SendCalls : calls[k].opp = 2 /\ calls[k].block \in {7, 8}
    /\ \E k \in 1..Len(calls) :
          calls[k].op = "simulate" /\ calls[k].opp = 1 /\ calls[k].block = 7

====
